---- MODULE Spec2Model ----
(***************************************************************************)
(* A model of the result-aggregation scripts of the repository:            *)
(*   examples/process_evaluation_results.py  (per-question correctness,    *)
(*       per-model accuracy, macro and micro averages, main and the        *)
(*       reports it saves)                                                 *)
(*   examples/combine_detail_results.py      (directory scan, file-name    *)
(*       resolution, the per-evaluation output files)                      *)
(*   examples/extract_evaluation_results.py  (extract_results)             *)
(*   community_tasks/*.py                    (the prompt functions)        *)
(* Each script is one state machine with its own specification; they share *)
(* the variables pc and error.  Python floats are modelled as exact        *)
(* rationals <<numerator, denominator>>; strings that the code parses are  *)
(* sequences of one-character strings.                                     *)
(***************************************************************************)
EXTENDS Integers, Sequences, FiniteSets, TLC

VARIABLES
    pc,                  \* position of the running script
    error,               \* the exception that ended the call, or "none"
    \* ---- compute_macro_micro_averages
    evaluation_results,  \* the dict subset -> scores, a sequence in enumeration order
    dataset_totals,      \* the dict subset -> weight, keyed like evaluation_results
    kind,                \* "dict" or "defaultdict": the type of the per-subset mappings
    er_in,               \* evaluation_results as it was when the call started
    macro_averages,
    micro_averages,
    \* ---- get_all_correct_ids / calculate_models_accuracy
    dataset,             \* the rows of one subset
    correct_answer_ratio,
    all_correct_ids,
    filtered_ids,        \* the filtered_ids argument: [given, ids]
    scores,              \* the mapping calculate_models_accuracy returns
    kept_len,            \* len(dataset) after the filter (line 56)
    \* ---- combine_results_memory_efficient, first pass
    top_entries,         \* the entries of os.listdir(folder_path) visited so far
    files_by_eval,       \* eval_name -> list of file infos
    \* ---- combine_results_memory_efficient, second pass
    artifacts,           \* output path -> what the file at that path holds
    skipped,             \* the source files whose processing raised (line 107)
    \* ---- main of process_evaluation_results.py; its per-subset dicts are
    \* sequences in the order of subsets, like evaluation_results above
    subsets,             \* what get_dataset_subsets returned
    aggregated,          \* the subsets whose loop iteration has completed, in order
    all_correct_ids_by_subset,        \* main's dict all_correct_ids
    all_correct_ratios,
    all_evaluation_results,
    all_evaluation_results_filtered,
    dataset_total,
    dataset_total_filtered,
    macro_avg, micro_avg,                      \* line 148
    macro_avg_filtered, micro_avg_filtered,    \* line 149
    avg_calls,           \* how many calls of compute_macro_micro_averages returned
    written,             \* the names of the report files written, in order
    failed,              \* the report whose write raised, or ""
    \* ---- extract_results
    data,                \* the parsed JSON of one results file
    extracted,           \* the dict extract_results returns
    \* ---- the prompt functions of community_tasks
    line,                \* the dataset record handed to the prompt function
    doc                  \* what the prompt function returned

avgVars  == <<evaluation_results, dataset_totals, kind, er_in, macro_averages, micro_averages>>
aggVars  == <<dataset, correct_answer_ratio, all_correct_ids, filtered_ids, scores, kept_len>>
scanVars == <<top_entries, files_by_eval, artifacts, skipped>>
mainVars == <<subsets, aggregated, all_correct_ids_by_subset, all_correct_ratios,
              all_evaluation_results, all_evaluation_results_filtered,
              dataset_total, dataset_total_filtered, macro_avg, micro_avg,
              macro_avg_filtered, micro_avg_filtered, avg_calls, written, failed>>
extractVars == <<data, extracted>>
promptVars == <<line, doc>>
vars     == <<pc, error, avgVars, aggVars, scanVars, mainVars, extractVars, promptVars>>

(***************************************************************************)
(* Bounds of the model.                                                    *)
(***************************************************************************)
MaxSubsets == 2
MaxWeight  == 2
MaxRecords == 3
MaxTop     == 2

(***************************************************************************)
(* The variables of a script that is not running.                          *)
(***************************************************************************)
IdleMain ==
    /\ subsets = <<>> /\ aggregated = <<>>
    /\ all_correct_ids_by_subset = <<>> /\ all_correct_ratios = <<>>
    /\ all_evaluation_results = <<>> /\ all_evaluation_results_filtered = <<>>
    /\ dataset_total = <<>> /\ dataset_total_filtered = <<>>
    /\ macro_avg = <<>> /\ micro_avg = <<>>
    /\ macro_avg_filtered = <<>> /\ micro_avg_filtered = <<>>
    /\ avg_calls = 0 /\ written = <<>> /\ failed = ""

IdleExtract == data = <<>> /\ extracted = <<>>

IdlePrompt == line = <<>> /\ doc = <<>>

(***************************************************************************)
(* Exact arithmetic standing for Python's float arithmetic.                *)
(***************************************************************************)
RECURSIVE GCD(_, _)
GCD(a, b) == IF b = 0 THEN a ELSE GCD(b, a % b)

\* a canonical form; a zero denominator (a division by zero) is left as it is
RNorm(r) ==
    IF r[2] = 0 THEN r
    ELSE LET g == GCD(r[1], r[2]) IN <<r[1] \div g, r[2] \div g>>

RAdd(a, b)    == RNorm(<<a[1] * b[2] + b[1] * a[2], a[2] * b[2]>>)
RMulInt(a, k) == RNorm(<<a[1] * k, a[2]>>)
RDivInt(a, k) == RNorm(<<a[1], a[2] * k>>)
RLe(a, b)     == a[1] * b[2] <= b[1] * a[2]
REq(a, b)     == a[1] * b[2] = b[1] * a[2]
RZero         == <<0, 1>>
ROne          == <<1, 1>>
RInt(k)       == <<k, 1>>

(***************************************************************************)
(* The values of the inputs.                                               *)
(***************************************************************************)
Models    == {"x", "y"}
AccValues == {<<0, 1>>, <<1, 2>>, <<1, 1>>}      \* accuracies 0, 0.5, 1
Weights   == {0, 1, MaxWeight}
ScoreMaps == UNION {[D -> AccValues] : D \in SUBSET Models}
Kinds     == {"dict", "defaultdict"}
Idle      == <<>>

(***************************************************************************)
(* compute_macro_micro_averages                                            *)
(***************************************************************************)
\* a variant of the loop below that counts every subset once, whatever its
\* weight
RECURSIVE WeightedLoopUnit(_, _, _, _, _)
WeightedLoopUnit(er, totals, m, i, acc) ==
    IF i > Len(er) THEN acc
    ELSE IF m \in DOMAIN er[i]
         THEN WeightedLoopUnit(er, totals, m, i + 1,
                  [total_score |-> RAdd(acc.total_score, er[i][m]),
                   total_count |-> acc.total_count + (IF totals[i] > 0 THEN 1 ELSE 0)])
         ELSE WeightedLoopUnit(er, totals, m, i + 1, acc)

\* lines 74-82: the loop over the subsets for one model, from subset i on;
\* acc = [total_score, total_count]
RECURSIVE WeightedLoop(_, _, _, _, _)
WeightedLoop(er, totals, m, i, acc) ==
    IF i > Len(er) THEN acc
    ELSE IF m \in DOMAIN er[i]
         THEN WeightedLoop(er, totals, m, i + 1,
                  [total_score |-> RAdd(acc.total_score, RMulInt(er[i][m], totals[i])),
                   total_count |-> acc.total_count + totals[i]])
         ELSE WeightedLoop(er, totals, m, i + 1, acc)

\* lines 74-82, from total_score = total_count = 0
Totals(er, totals, m) ==
    WeightedLoop(er, totals, m, 1, [total_score |-> RZero, total_count |-> 0])

\* a variant without the guard of line 84
ReportedAlways(er, totals, m) == TRUE

\* line 84: the guard of the assignment of both averages
Reported(er, totals, m) == Totals(er, totals, m).total_count > 0

\* line 86: scores[model_name]; a plain dict raises KeyError on a missing key,
\* a defaultdict(float) inserts the key with 0.0 and returns that
Lookup(sc, m) == IF m \in DOMAIN sc THEN sc[m] ELSE RZero

RECURSIVE MicroSum(_, _, _)
MicroSum(er, m, i) ==
    IF i > Len(er) THEN RZero ELSE RAdd(Lookup(er[i], m), MicroSum(er, m, i + 1))

\* a variant that weights the micro average like the macro average
MicroOfWeighted(er, totals, m) ==
    LET t == WeightedLoop(er, totals, m, 1, [total_score |-> RZero, total_count |-> 0])
    IN RDivInt(t.total_score, t.total_count)

\* line 86: the micro average of one model
MicroOf(er, totals, m) == RDivInt(MicroSum(er, m, 1), Len(er))

\* a variant whose macro average is the plain mean of the scores
MacroOfUnweighted(er, totals, m) == RDivInt(MicroSum(er, m, 1), Len(er))

\* line 85: the macro average of one model
MacroOf(er, totals, m) ==
    LET t == Totals(er, totals, m) IN RDivInt(t.total_score, t.total_count)

\* line 73: the models the outer loop visits, the keys of the first subset
FirstKeys(er) == DOMAIN er[1]

\* line 86 raises KeyError for a reported model that a plain dict lacks
RaisesKeyError(er, totals, k) ==
    /\ k = "dict"
    /\ \E m \in FirstKeys(er) :
          /\ Reported(er, totals, m)
          /\ \E i \in 1 .. Len(er) : m \notin DOMAIN er[i]

\* line 86 on defaultdicts: reading scores[model_name] inserts the key
Touched(er, totals, k, i) ==
    IF k = "defaultdict"
    THEN {m \in FirstKeys(er) : Reported(er, totals, m)} \ DOMAIN er[i]
    ELSE {}

AfterCall(er, totals, k) ==
    [i \in 1 .. Len(er) |->
        [m \in DOMAIN er[i] \cup Touched(er, totals, k, i) |-> Lookup(er[i], m)]]

\* The whole call.  The outer loop visits the models of the first subset in
\* dict order; an iteration reads and writes only its own model's entries, so
\* the outcome is the same in every order and is given per model.
ComputeMacroMicroAverages(er, totals, k) ==
    IF Len(er) = 0
    THEN [error |-> "StopIteration", macro |-> Idle, micro |-> Idle, er |-> er]
    ELSE IF RaisesKeyError(er, totals, k)
    THEN [error |-> "KeyError", macro |-> Idle, micro |-> Idle, er |-> er]
    ELSE LET rep == {m \in FirstKeys(er) : Reported(er, totals, m)} IN
         [error |-> "none",
          macro |-> [m \in rep |-> MacroOf(er, totals, m)],
          micro |-> [m \in rep |-> MicroOf(er, totals, m)],
          er    |-> AfterCall(er, totals, k)]

\* a small and a large subset, in both enumeration orders: the model is right
\* on every question of the small one and on none of the large one
UnequalSubsets ==
    {[er |-> <<[m \in {"x"} |-> ROne], [m \in {"x"} |-> RZero]>>, totals |-> <<10, 1000>>],
     [er |-> <<[m \in {"x"} |-> RZero], [m \in {"x"} |-> ROne]>>, totals |-> <<1000, 10>>]}

InitAvg ==
    /\ pc = "call"
    /\ error = "none"
    /\ \/ \E n \in 0 .. MaxSubsets :
             /\ evaluation_results \in [1 .. n -> ScoreMaps]
             /\ dataset_totals \in [1 .. n -> Weights]
       \/ \E in \in UnequalSubsets :
             /\ evaluation_results = in.er
             /\ dataset_totals = in.totals
    /\ kind \in Kinds
    /\ er_in = evaluation_results
    /\ macro_averages = Idle
    /\ micro_averages = Idle
    /\ dataset = Idle /\ correct_answer_ratio = Idle /\ all_correct_ids = Idle
    /\ filtered_ids = Idle /\ scores = Idle /\ kept_len = 0
    /\ top_entries = Idle /\ files_by_eval = Idle /\ artifacts = Idle /\ skipped = {}
    /\ IdleMain /\ IdleExtract /\ IdlePrompt

CallAverages ==
    /\ pc = "call"
    /\ \E r \in {ComputeMacroMicroAverages(evaluation_results, dataset_totals, kind)} :
          /\ error' = r.error
          /\ pc' = IF r.error = "none" THEN "returned" ELSE "raised"
          /\ macro_averages' = r.macro
          /\ micro_averages' = r.micro
          /\ evaluation_results' = r.er
    /\ UNCHANGED <<dataset_totals, kind, er_in, aggVars, scanVars, mainVars, extractVars, promptVars>>

NextAvg == CallAverages

SpecAvg == InitAvg /\ [][NextAvg]_vars

(***************************************************************************)
(* get_all_correct_ids and calculate_models_accuracy                       *)
(***************************************************************************)
QIds          == {1, 2}
AccNormValues == {<<0, 1>>, <<1, 2>>, <<1, 1>>, <<2, 1>>}   \* 0, 0.5, 1 and 2
Rows          == [id : QIds, model_name : Models, acc_norm : AccNormValues]

Range(f) == {f[i] : i \in DOMAIN f}

\* the keys of a groupby on integers, in the order pandas yields them (sorted)
RECURSIVE SortedSeq(_)
SortedSeq(S) ==
    IF S = {} THEN <<>>
    ELSE LET lo == CHOOSE a \in S : \A b \in S : a <= b
         IN <<lo>> \o SortedSeq(S \ {lo})

\* group_df['metrics.acc_norm'].sum()
RECURSIVE SumAcc(_)
SumAcc(rows) ==
    IF rows = <<>> THEN RZero ELSE RAdd(Head(rows).acc_norm, SumAcc(Tail(rows)))

RowsOfId(ds, q)    == SelectSeq(ds, LAMBDA r : r.id = q)
RowsOfModel(ds, m) == SelectSeq(ds, LAMBDA r : r.model_name = m)

\* a variant with a strict comparison
AllCorrectStrict(total_correct_answer, total_questions) ==
    /\ RLe(RInt(total_questions), total_correct_answer)
    /\ ~REq(RInt(total_questions), total_correct_answer)

\* line 42: total_correct_answer >= total_questions
AllCorrect(total_correct_answer, total_questions) ==
    RLe(RInt(total_questions), total_correct_answer)

\* a variant that never reports a ratio above 1
RatioCapped(total_correct_answer, total_questions) ==
    IF total_questions > 0
    THEN IF RLe(RInt(total_questions), total_correct_answer) THEN ROne
         ELSE RDivInt(total_correct_answer, total_questions)
    ELSE RZero

\* line 40
Ratio(total_correct_answer, total_questions) ==
    IF total_questions > 0 THEN RDivInt(total_correct_answer, total_questions) ELSE RZero

\* lines 37-43: the loop over the groups, from the i-th key on
RECURSIVE GroupLoop(_, _, _, _)
GroupLoop(ds, keys, i, acc) ==
    IF i > Len(keys) THEN acc
    ELSE LET group_df              == RowsOfId(ds, keys[i])
             total_correct_answer == SumAcc(group_df)
             total_questions      == Len(group_df)
         IN GroupLoop(ds, keys, i + 1,
                [ratio |-> [q \in DOMAIN acc.ratio \cup {keys[i]} |->
                               IF q = keys[i]
                               THEN Ratio(total_correct_answer, total_questions)
                               ELSE acc.ratio[q]],
                 ids   |-> IF AllCorrect(total_correct_answer, total_questions)
                           THEN Append(acc.ids, keys[i])
                           ELSE acc.ids])

\* lines 27-45; the returned dataset is the input
GetAllCorrectIdsOf(ds) ==
    GroupLoop(ds, SortedSeq({ds[i].id : i \in DOMAIN ds}), 1,
              [ratio |-> Idle, ids |-> <<>>])

\* a variant whose filter drops nothing
FilterKeepAll(ds, fid) == ds

\* lines 53-56
Filter(ds, fid) ==
    IF fid.given
    THEN SelectSeq(ds, LAMBDA r : r.id \notin Range(fid.ids))
    ELSE ds

\* a variant that sums where the code averages
MeanAsSum(rows) == SumAcc(rows)

\* line 62: group_df['metrics.acc_norm'].mean()
Mean(rows) == RDivInt(SumAcc(rows), Len(rows))

\* a variant that reports every model of the unfiltered rows, with 0.0 for a
\* model that keeps no row
CalculateModelsAccuracyZeroFill(ds, fid) ==
    LET kept == Filter(ds, fid) IN
    [scores |-> [m \in {ds[i].model_name : i \in DOMAIN ds} |->
                    IF RowsOfModel(kept, m) = <<>> THEN RZero
                    ELSE Mean(RowsOfModel(kept, m))],
     kept_len |-> Len(kept)]

\* lines 48-65
CalculateModelsAccuracy(ds, fid) ==
    LET kept == Filter(ds, fid) IN
    [scores |-> [m \in {kept[i].model_name : i \in DOMAIN kept} |->
                    Mean(RowsOfModel(kept, m))],
     kept_len |-> Len(kept)]

NoFilter  == [given |-> FALSE, ids |-> <<>>]
IdFilters == {[given |-> TRUE, ids |-> SortedSeq(S)] : S \in SUBSET QIds}

\* two models on two questions: both are right on question 1, only x is
\* right on question 2
TwoByTwoRecords ==
    <<[id |-> 1, model_name |-> "x", acc_norm |-> ROne],
      [id |-> 1, model_name |-> "y", acc_norm |-> ROne],
      [id |-> 2, model_name |-> "x", acc_norm |-> ROne],
      [id |-> 2, model_name |-> "y", acc_norm |-> RZero]>>

InitAgg ==
    /\ pc = "load"
    /\ error = "none"
    /\ \/ \E n \in 0 .. MaxRecords : dataset \in [1 .. n -> Rows]
       \/ dataset = TwoByTwoRecords
    /\ correct_answer_ratio = Idle
    /\ all_correct_ids = <<>>
    /\ filtered_ids = NoFilter
    /\ scores = Idle
    /\ kept_len = 0
    /\ evaluation_results = Idle /\ dataset_totals = Idle /\ kind = "dict"
    /\ er_in = Idle /\ macro_averages = Idle /\ micro_averages = Idle
    /\ top_entries = Idle /\ files_by_eval = Idle /\ artifacts = Idle /\ skipped = {}
    /\ IdleMain /\ IdleExtract /\ IdlePrompt

GetAllCorrectIds ==
    /\ pc = "load"
    /\ \E r \in {GetAllCorrectIdsOf(dataset)} :
          /\ correct_answer_ratio' = r.ratio
          /\ all_correct_ids' = r.ids
    /\ pc' = "analyzed"
    /\ UNCHANGED <<error, dataset, filtered_ids, scores, kept_len, avgVars, scanVars,
                   mainVars, extractVars, promptVars>>

\* a call of calculate_models_accuracy: without filtered_ids, with the
\* universally-correct ids (as main calls it) or with any other list of ids
CalculateAccuracy ==
    /\ pc = "analyzed"
    /\ \E fid \in {NoFilter} \cup IdFilters :
          \E r \in {CalculateModelsAccuracy(dataset, fid)} :
              /\ filtered_ids' = fid
              /\ scores' = r.scores
              /\ kept_len' = r.kept_len
    /\ pc' = "scored"
    /\ UNCHANGED <<error, dataset, correct_answer_ratio, all_correct_ids, avgVars, scanVars,
                   mainVars, extractVars, promptVars>>

NextAgg == GetAllCorrectIds \/ CalculateAccuracy

SpecAgg == InitAgg /\ [][NextAgg]_vars

(***************************************************************************)
(* combine_detail_results.py: strings                                      *)
(***************************************************************************)
\* "details_community|task_a:sub|0_2025-01-01T00-00-00.parquet"
DetailsTaskA ==
    <<"d", "e", "t", "a", "i", "l", "s", "_", "c", "o", "m", "m", "u", "n",
      "i", "t", "y", "|", "t", "a", "s", "k", "_", "a", ":", "s", "u", "b",
      "|", "0", "_", "2", "0", "2", "5", "-", "0", "1", "-", "0", "1", "T",
      "0", "0", "-", "0", "0", "-", "0", "0", ".", "p", "a", "r", "q", "u",
      "e", "t">>
\* "task_b_2025-01-01T00-00-00.parquet"
PlainTaskB ==
    <<"t", "a", "s", "k", "_", "b", "_", "2", "0", "2", "5", "-", "0", "1",
      "-", "0", "1", "T", "0", "0", "-", "0", "0", "-", "0", "0", ".", "p",
      "a", "r", "q", "u", "e", "t">>
\* "notes.txt"
Notes == <<"n", "o", "t", "e", "s", ".", "t", "x", "t">>
\* ".parquet"
DotParquet == <<".", "p", "a", "r", "q", "u", "e", "t">>
\* "details_"
DetailsPrefix == <<"d", "e", "t", "a", "i", "l", "s", "_">>

\* str.endswith, str.startswith
EndsWith(str, suffix) ==
    /\ Len(str) >= Len(suffix)
    /\ SubSeq(str, Len(str) - Len(suffix) + 1, Len(str)) = suffix
StartsWith(str, prefix) ==
    /\ Len(str) >= Len(prefix)
    /\ SubSeq(str, 1, Len(prefix)) = prefix

\* str.split(sep) for a one-character sep: the list of the pieces between
\* the separators, empty pieces kept; cur is the piece being read
RECURSIVE SplitFrom(_, _, _, _, _)
SplitFrom(str, sep, i, cur, done) ==
    IF i > Len(str) THEN Append(done, cur)
    ELSE IF str[i] = sep
         THEN SplitFrom(str, sep, i + 1, <<>>, Append(done, cur))
         ELSE SplitFrom(str, sep, i + 1, Append(cur, str[i]), done)

Split(str, sep) == SplitFrom(str, sep, 1, <<>>, <<>>)

\* lines 127-131: the fallback, the text before the first "_"
Fallback(filename) ==
    LET eval_name_part == Split(filename, "_")[1] IN
    IF StartsWith(eval_name_part, DetailsPrefix)
    THEN SubSeq(eval_name_part, Len(DetailsPrefix) + 1, Len(eval_name_part))
    ELSE eval_name_part

\* lines 122-131
EvalNameOf(filename) ==
    LET parts == Split(filename, "|") IN
    IF Len(parts) >= 2 THEN Split(parts[2], "|")[1] ELSE Fallback(filename)

(***************************************************************************)
(* combine_detail_results.py: the directory tree                           *)
(***************************************************************************)
File(name)      == [name |-> name, kind |-> "file", readable |-> TRUE, kids |-> <<>>]
Dir(name, kids) == [name |-> name, kind |-> "dir", readable |-> TRUE, kids |-> kids]
LockedDir(name) == [name |-> name, kind |-> "dir", readable |-> FALSE, kids |-> <<>>]
IsDir(n)        == n.kind = "dir"                       \* os.path.isdir

\* the names of the directories, by the place they are listed at
TopName(i) == IF i = 1 THEN <<"a">>
              ELSE IF i = 2 THEN <<"a", "_", "b">>
              ELSE <<"c">> \o [k \in 1 .. i - 3 |-> "c"]
SubName(i) == IF i = 1 THEN <<"b">> ELSE <<"r", "u", "n", "_", "t", "2">>
RunOne     == <<"t", "1">>
RunTwo     == <<"r", "u", "n", "_", "t", "3">>

\* what a first-level directory can hold, the directories not yet named:
\* a stray file, an unreadable directory, an empty directory, a run folder
\* with a stray file and a result file, a model folder with one run, a model
\* folder whose first run is empty
SubShapes ==
    { File(Notes),
      LockedDir(<<>>),
      Dir(<<>>, <<>>),
      Dir(<<>>, <<File(Notes), File(DetailsTaskA)>>),
      Dir(<<>>, <<Dir(RunOne, <<File(PlainTaskB)>>)>>),
      Dir(<<>>, <<Dir(RunOne, <<>>), Dir(RunTwo, <<File(DetailsTaskA)>>)>>) }

Named(shape, name) == IF IsDir(shape) THEN [shape EXCEPT !.name = name] ELSE shape

\* the listings of a first-level directory: at most two entries, of
\* different names
SubListings ==
    {<<>>} \cup {<<Named(s, SubName(1))>> : s \in SubShapes}
           \cup {<<Named(s, SubName(1)), Named(t, SubName(2))>> :
                    <<s, t>> \in {st \in SubShapes \X SubShapes :
                                     IsDir(st[1]) \/ IsDir(st[2])}}

\* what the root can hold at place i
TopEntries(i) ==
    {File(Notes), LockedDir(TopName(i))} \cup {Dir(TopName(i), l) : l \in SubListings}

(***************************************************************************)
(* combine_results_memory_efficient, first pass                            *)
(***************************************************************************)
\* line 134: files_by_eval[eval_name].append(...)
AppendInfo(fbe, eval_name, info) ==
    [k \in DOMAIN fbe \cup {eval_name} |->
        IF k = eval_name
        THEN (IF k \in DOMAIN fbe THEN Append(fbe[k], info) ELSE <<info>>)
        ELSE fbe[k]]

Ok(fbe)     == [raised |-> FALSE, fbe |-> fbe]
Raised(fbe) == [raised |-> TRUE, fbe |-> fbe]

\* lines 116-140: the loop over the entries of one evaluation directory,
\* from the i-th on
RECURSIVE FilesLoop(_, _, _, _, _, _)
FilesLoop(listing, i, eval_dir_path, model_name, eval_time, fbe) ==
    IF i > Len(listing) THEN fbe
    ELSE LET filename == listing[i].name IN
         IF EndsWith(filename, DotParquet)
         THEN FilesLoop(listing, i + 1, eval_dir_path, model_name, eval_time,
                  AppendInfo(fbe, EvalNameOf(filename),
                      [path            |-> Append(eval_dir_path, filename),
                       model_name      |-> model_name,
                       evaluation_time |-> eval_time]))
         ELSE FilesLoop(listing, i + 1, eval_dir_path, model_name, eval_time, fbe)

\* lines 115-140; os.listdir (line 116) is outside the try block
ProcessEvaluationDirectory(d, eval_dir_path, model_name, eval_time, fbe) ==
    IF ~d.readable THEN Raised(fbe)
    ELSE Ok(FilesLoop(d.kids, 1, eval_dir_path, model_name, eval_time, fbe))

\* lines 56-59 and 62-65: the loop over the entries of a model folder
RECURSIVE RunsLoop(_, _, _, _, _)
RunsLoop(listing, i, model_path, model_name, fbe) ==
    IF i > Len(listing) THEN Ok(fbe)
    ELSE IF IsDir(listing[i])
         THEN LET r == ProcessEvaluationDirectory(listing[i],
                           Append(model_path, listing[i].name),
                           model_name, listing[i].name, fbe)
              IN IF r.raised THEN r
                 ELSE RunsLoop(listing, i + 1, model_path, model_name, r.fbe)
         ELSE RunsLoop(listing, i + 1, model_path, model_name, fbe)

\* lines 51-59: the loop over the entries of an organization folder
RECURSIVE ModelsLoop(_, _, _, _, _)
ModelsLoop(listing, i, path1, model_org, fbe) ==
    IF i > Len(listing) THEN Ok(fbe)
    ELSE IF ~IsDir(listing[i])
         THEN ModelsLoop(listing, i + 1, path1, model_org, fbe)
         ELSE IF ~listing[i].readable THEN Raised(fbe)       \* line 56
         ELSE LET r == RunsLoop(listing[i].kids, 1,
                           Append(path1, listing[i].name),
                           model_org \o <<"_">> \o listing[i].name, fbe)
              IN IF r.raised THEN r
                 ELSE ModelsLoop(listing, i + 1, path1, model_org, r.fbe)

\* a variant that looks at every sub-entry, not at the first one only
IsModelOrgAny(sub_entries) ==
    IF \E j \in DOMAIN sub_entries :
          /\ IsDir(sub_entries[j])
          /\ ~\E k \in DOMAIN sub_entries[j].kids :
                  EndsWith(sub_entries[j].kids[k].name, DotParquet)
    THEN "yes" ELSE "no"

\* lines 33-47: "yes", "no", or "raise" when the first sub-directory cannot
\* be listed (the try block catches NotADirectoryError only)
IsModelOrg(sub_entries) ==
    IF sub_entries # <<>> /\ IsDir(sub_entries[1])
    THEN IF ~sub_entries[1].readable THEN "raise"
         ELSE IF \E k \in DOMAIN sub_entries[1].kids :
                     EndsWith(sub_entries[1].kids[k].name, DotParquet)
              THEN "no" ELSE "yes"
    ELSE "no"

\* lines 28-65: the body of the loop over the first-level entries
ScanTop(entry, fbe) ==
    IF ~IsDir(entry) THEN Ok(fbe)                            \* lines 29-30
    ELSE IF ~entry.readable THEN Raised(fbe)                 \* line 36
    ELSE LET is_model_org == IsModelOrg(entry.kids) IN
         IF is_model_org = "raise" THEN Raised(fbe)
         ELSE IF is_model_org = "yes"
              THEN ModelsLoop(entry.kids, 1, <<entry.name>>, entry.name, fbe)
              ELSE RunsLoop(entry.kids, 1, <<entry.name>>, entry.name, fbe)

InitScan ==
    /\ pc = "scan"
    /\ error = "none"
    /\ top_entries = <<>>
    /\ files_by_eval = Idle
    /\ artifacts = Idle /\ skipped = {}
    /\ evaluation_results = Idle /\ dataset_totals = Idle /\ kind = "dict"
    /\ er_in = Idle /\ macro_averages = Idle /\ micro_averages = Idle
    /\ dataset = Idle /\ correct_answer_ratio = Idle /\ all_correct_ids = Idle
    /\ filtered_ids = Idle /\ scores = Idle /\ kept_len = 0
    /\ IdleMain /\ IdleExtract /\ IdlePrompt

\* one iteration of the loop of line 27, on the next entry that
\* os.listdir(folder_path) lists
ScanEntry ==
    /\ pc = "scan"
    /\ Len(top_entries) < MaxTop
    /\ \E entry \in TopEntries(Len(top_entries) + 1) :
          /\ \A k \in DOMAIN top_entries : top_entries[k].name # entry.name
          /\ top_entries' = Append(top_entries, entry)
          /\ \E r \in {ScanTop(entry, files_by_eval)} :
                IF r.raised
                THEN /\ pc' = "raised"
                     /\ error' = "PermissionError"
                     /\ UNCHANGED files_by_eval
                ELSE /\ files_by_eval' = r.fbe
                     /\ UNCHANGED <<pc, error>>
    /\ UNCHANGED <<artifacts, skipped, avgVars, aggVars, mainVars, extractVars, promptVars>>

\* the listing of the root is exhausted: the first pass ends
EndScan ==
    /\ pc = "scan"
    /\ pc' = "scanned"
    /\ UNCHANGED <<error, scanVars, avgVars, aggVars, mainVars, extractVars, promptVars>>

(***************************************************************************)
(* combine_results_memory_efficient, second pass                           *)
(***************************************************************************)
\* line 84: eval_name.replace('|', '_').replace(':', '_')
SafeEvalName(eval_name) ==
    [i \in DOMAIN eval_name |-> IF eval_name[i] \in {"|", ":"} THEN "_" ELSE eval_name[i]]

\* a variant that keeps the text before the first "_"
TimestampFirstPiece(evaluation_time) == Split(evaluation_time, "_")[1]

\* lines 96-98
TimestampOf(evaluation_time) ==
    IF \E i \in DOMAIN evaluation_time : evaluation_time[i] = "_"
    THEN LET pieces == Split(evaluation_time, "_") IN pieces[Len(pieces)]
    ELSE evaluation_time

\* lines 101-102: the output file, below output_dir
OutputPath(eval_name, info) == <<SafeEvalName(eval_name), info.model_name \o DotParquet>>

\* lines 92-99: the rows of the source file, each with the three columns added
WithMetadata(eval_name, info) ==
    [source     |-> info.path,
     model_name |-> info.model_name,
     eval_name  |-> eval_name,
     timestamp  |-> TimestampOf(info.evaluation_time)]

\* line 103: to_parquet replaces the file at output_path
WriteTo(out, output_path, rows) ==
    [q \in DOMAIN out \cup {output_path} |-> IF q = output_path THEN rows ELSE out[q]]

\* lines 89-108: the loop over the files of one evaluation name, from the
\* i-th on; reading or writing the files of bad raises, which is caught
RECURSIVE InfosLoop(_, _, _, _, _)
InfosLoop(eval_name, file_infos, i, bad, out) ==
    IF i > Len(file_infos) THEN out
    ELSE IF file_infos[i].path \in bad
         THEN InfosLoop(eval_name, file_infos, i + 1, bad, out)
         ELSE InfosLoop(eval_name, file_infos, i + 1, bad,
                        WriteTo(out, OutputPath(eval_name, file_infos[i]),
                                WithMetadata(eval_name, file_infos[i])))

\* lines 79-108: the loop over the evaluation names in the order keys, from
\* the i-th on
RECURSIVE EvalsLoop(_, _, _, _, _)
EvalsLoop(fbe, keys, i, bad, out) ==
    IF i > Len(keys) THEN out
    ELSE EvalsLoop(fbe, keys, i + 1, bad, InfosLoop(keys[i], fbe[keys[i]], 1, bad, out))

\* the orders in which a dict can list its keys
RECURSIVE KeyOrders(_)
KeyOrders(S) ==
    IF S = {} THEN {<<>>}
    ELSE UNION {{<<k>> \o o : o \in KeyOrders(S \ {k})} : k \in S}

\* the paths of the files the first pass recorded
SourcePaths(fbe) ==
    UNION {{fbe[k][i].path : i \in DOMAIN fbe[k]} : k \in DOMAIN fbe}

\* lines 67-69: nothing was found
NoFiles ==
    /\ pc = "scanned"
    /\ DOMAIN files_by_eval = {}
    /\ pc' = "nofiles"
    /\ UNCHANGED <<error, scanVars, avgVars, aggVars, mainVars, extractVars, promptVars>>

\* lines 79-108: the second pass.  The evaluation names come in the order of
\* first insertion into files_by_eval, which the model does not keep: every
\* order is taken.  Any of the files may fail to be read or written.
Organize ==
    /\ pc = "scanned"
    /\ DOMAIN files_by_eval # {}
    /\ \E keys \in KeyOrders(DOMAIN files_by_eval) :
         \E bad \in SUBSET SourcePaths(files_by_eval) :
            /\ artifacts' = EvalsLoop(files_by_eval, keys, 1, bad, <<>>)
            /\ skipped' = bad
    /\ pc' = "organized"
    /\ UNCHANGED <<error, top_entries, files_by_eval, avgVars, aggVars, mainVars,
                   extractVars, promptVars>>

NextScan == ScanEntry \/ EndScan \/ NoFiles \/ Organize

SpecScan == InitScan /\ [][NextScan]_vars

(***************************************************************************)
(* process_evaluation_results.py: main                                     *)
(***************************************************************************)
\* the subset folders of the repository, as get_dataset_subsets lists them
SubsetNames == <<"A", "B">>

\* the rows of a subset: each model answered each question at most once, and
\* every answer is scored 0 or 1
Cells ==
    <<[id |-> 1, model_name |-> "x"], [id |-> 1, model_name |-> "y"],
      [id |-> 2, model_name |-> "x"], [id |-> 2, model_name |-> "y"]>>

CellRow(k, correct) ==
    [id |-> Cells[k].id, model_name |-> Cells[k].model_name,
     acc_norm |-> IF correct THEN ROne ELSE RZero]

RECURSIVE RowsFrom(_, _, _)
RowsFrom(k, present, correct) ==
    IF k > Len(Cells) THEN <<>>
    ELSE (IF k \in present THEN <<CellRow(k, k \in correct)>> ELSE <<>>)
         \o RowsFrom(k + 1, present, correct)

SubsetDatasets ==
    UNION {{RowsFrom(1, present, correct) : correct \in SUBSET present} :
              present \in SUBSET (1 .. Len(Cells))}

\* lines 162-169: the keys of results, in the order save_results writes them
ReportNames ==
    <<"all_evaluation_results", "all_evaluation_results_filtered",
      "all_correct_ids", "all_correct_ratios",
      "dataset_total", "dataset_total_filtered">>

\* a variant of the loop of line 129 that stops after its first iteration
LoopDoneEarly(done, subs) == done >= 1 \/ done >= Len(subs)

\* line 129: the loop over subsets is exhausted
LoopDone(done, subs) == done >= Len(subs)

InitMain ==
    /\ pc = "loop"
    /\ error = "none"
    /\ \E n \in 0 .. Len(SubsetNames) : subsets = SubSeq(SubsetNames, 1, n)   \* line 117
    /\ aggregated = <<>>
    /\ all_evaluation_results = <<>> /\ all_evaluation_results_filtered = <<>>   \* 121-126
    /\ all_correct_ids_by_subset = <<>> /\ all_correct_ratios = <<>>
    /\ dataset_total = <<>> /\ dataset_total_filtered = <<>>
    /\ macro_avg = <<>> /\ micro_avg = <<>>
    /\ macro_avg_filtered = <<>> /\ micro_avg_filtered = <<>>
    /\ avg_calls = 0 /\ written = <<>> /\ failed = ""
    /\ dataset = <<>>
    /\ correct_answer_ratio = Idle /\ all_correct_ids = Idle
    /\ filtered_ids = Idle /\ scores = Idle /\ kept_len = 0
    /\ evaluation_results = Idle /\ dataset_totals = Idle /\ kind = "defaultdict"
    /\ er_in = Idle /\ macro_averages = Idle /\ micro_averages = Idle
    /\ top_entries = Idle /\ files_by_eval = Idle /\ artifacts = Idle /\ skipped = {}
    /\ IdleExtract /\ IdlePrompt

\* lines 129-145: one iteration of the loop, on the rows the subset holds
ProcessSubset ==
    /\ pc = "loop"
    /\ ~LoopDone(Len(aggregated), subsets)
    /\ \E ds \in SubsetDatasets :
         \E g \in {GetAllCorrectIdsOf(ds)} :
           \E plain \in {CalculateModelsAccuracy(ds, NoFilter)} :
             \E hard \in {CalculateModelsAccuracy(ds, [given |-> TRUE, ids |-> g.ids])} :
                /\ dataset' = ds
                /\ all_correct_ids_by_subset' = Append(all_correct_ids_by_subset, g.ids)
                /\ all_correct_ratios' = Append(all_correct_ratios, g.ratio)
                /\ all_evaluation_results' = Append(all_evaluation_results, plain.scores)
                /\ all_evaluation_results_filtered' =
                       Append(all_evaluation_results_filtered, hard.scores)
                /\ dataset_total' = Append(dataset_total, Cardinality(DOMAIN g.ratio))
                /\ dataset_total_filtered' = Append(dataset_total_filtered, Len(g.ids))
    /\ aggregated' = Append(aggregated, subsets[Len(aggregated) + 1])
    /\ UNCHANGED <<pc, error, subsets, macro_avg, micro_avg, macro_avg_filtered,
                   micro_avg_filtered, avg_calls, written, failed,
                   correct_answer_ratio, all_correct_ids, filtered_ids, scores, kept_len,
                   avgVars, scanVars, extractVars, promptVars>>

\* line 148
AverageAll ==
    /\ pc = "loop"
    /\ LoopDone(Len(aggregated), subsets)
    /\ \E r \in {ComputeMacroMicroAverages(all_evaluation_results, dataset_total,
                                           "defaultdict")} :
          IF r.error = "none"
          THEN /\ macro_avg' = r.macro
               /\ micro_avg' = r.micro
               /\ all_evaluation_results' = r.er
               /\ avg_calls' = avg_calls + 1
               /\ pc' = "averaged"
               /\ UNCHANGED error
          ELSE /\ pc' = "raised"
               /\ error' = r.error
               /\ UNCHANGED <<macro_avg, micro_avg, all_evaluation_results, avg_calls>>
    /\ UNCHANGED <<subsets, aggregated, all_correct_ids_by_subset, all_correct_ratios,
                   all_evaluation_results_filtered, dataset_total, dataset_total_filtered,
                   macro_avg_filtered, micro_avg_filtered, written, failed,
                   avgVars, aggVars, scanVars, extractVars, promptVars>>

\* line 149
AverageFiltered ==
    /\ pc = "averaged"
    /\ \E r \in {ComputeMacroMicroAverages(all_evaluation_results_filtered,
                                           dataset_total_filtered, "defaultdict")} :
          IF r.error = "none"
          THEN /\ macro_avg_filtered' = r.macro
               /\ micro_avg_filtered' = r.micro
               /\ all_evaluation_results_filtered' = r.er
               /\ avg_calls' = avg_calls + 1
               /\ pc' = "save"
               /\ UNCHANGED error
          ELSE /\ pc' = "raised"
               /\ error' = r.error
               /\ UNCHANGED <<macro_avg_filtered, micro_avg_filtered,
                              all_evaluation_results_filtered, avg_calls>>
    /\ UNCHANGED <<subsets, aggregated, all_correct_ids_by_subset, all_correct_ratios,
                   all_evaluation_results, dataset_total, dataset_total_filtered,
                   macro_avg, micro_avg, written, failed,
                   avgVars, aggVars, scanVars, extractVars, promptVars>>

\* lines 94-97, one iteration of the loop of save_results on the reports main
\* hands it (lines 152-171): open and json.dump either succeed or raise, and
\* nothing catches what they raise
SaveReport ==
    /\ pc = "save"
    /\ LET filename == ReportNames[Len(written) + 1] IN
       \E ok \in BOOLEAN :
          IF ok
          THEN /\ written' = Append(written, filename)
               /\ pc' = IF Len(written) + 1 = Len(ReportNames) THEN "saved" ELSE "save"
               /\ UNCHANGED <<error, failed>>
          ELSE /\ pc' = "raised"
               /\ error' = "OSError"
               /\ failed' = filename
               /\ UNCHANGED written
    /\ UNCHANGED <<subsets, aggregated, all_correct_ids_by_subset, all_correct_ratios,
                   all_evaluation_results, all_evaluation_results_filtered,
                   dataset_total, dataset_total_filtered, macro_avg, micro_avg,
                   macro_avg_filtered, micro_avg_filtered, avg_calls,
                   avgVars, aggVars, scanVars, extractVars, promptVars>>

\* lines 172-177: the closing message and the optional upload
FinishMain ==
    /\ pc = "saved"
    /\ pc' = "done"
    /\ UNCHANGED <<error, mainVars, avgVars, aggVars, scanVars, extractVars, promptVars>>

NextMain == ProcessSubset \/ AverageAll \/ AverageFiltered \/ SaveReport \/ FinishMain

SpecMain == InitMain /\ [][NextMain]_vars

(***************************************************************************)
(* extract_evaluation_results.py: extract_results                          *)
(* A value that may be None, and a key that may be missing, is a sequence  *)
(* of length 0 or 1.                                                       *)
(***************************************************************************)
MaxDocs == 2

\* "community|cybersec_eval:owasp|0"
OwaspKey ==
    <<"c", "o", "m", "m", "u", "n", "i", "t", "y", "|", "c", "y", "b", "e",
      "r", "s", "e", "c", "_", "e", "v", "a", "l", ":", "o", "w", "a", "s",
      "p", "|", "0">>
\* "community|cybersec_eval_ctx:owasp|0"
OwaspCtxKey ==
    <<"c", "o", "m", "m", "u", "n", "i", "t", "y", "|", "c", "y", "b", "e",
      "r", "s", "e", "c", "_", "e", "v", "a", "l", "_", "c", "t", "x", ":",
      "o", "w", "a", "s", "p", "|", "0">>
\* "community|ctibench|0"
PlainKey ==
    <<"c", "o", "m", "m", "u", "n", "i", "t", "y", "|", "c", "t", "i", "b",
      "e", "n", "c", "h", "|", "0">>
\* "community|cybersec_eval:_average|0"
AverageKey ==
    <<"c", "o", "m", "m", "u", "n", "i", "t", "y", "|", "c", "y", "b", "e",
      "r", "s", "e", "c", "_", "e", "v", "a", "l", ":", "_", "a", "v", "e",
      "r", "a", "g", "e", "|", "0">>
\* "all"
AllKey ==
    <<"a", "l", "l">>
\* "_average"
UnderscoreAverage ==
    <<"_", "a", "v", "e", "r", "a", "g", "e">>
\* "community|cybersec_eval:owasp"
OwaspName ==
    <<"c", "o", "m", "m", "u", "n", "i", "t", "y", "|", "c", "y", "b", "e",
      "r", "s", "e", "c", "_", "e", "v", "a", "l", ":", "o", "w", "a", "s",
      "p">>
\* "community|cybersec_eval_ctx:owasp"
OwaspCtxName ==
    <<"c", "o", "m", "m", "u", "n", "i", "t", "y", "|", "c", "y", "b", "e",
      "r", "s", "e", "c", "_", "e", "v", "a", "l", "_", "c", "t", "x", ":",
      "o", "w", "a", "s", "p">>
\* "community|ctibench"
PlainName ==
    <<"c", "o", "m", "m", "u", "n", "i", "t", "y", "|", "c", "t", "i", "b",
      "e", "n", "c", "h">>
\* "community|cybersec_eval:_average"
AverageName ==
    <<"c", "o", "m", "m", "u", "n", "i", "t", "y", "|", "c", "y", "b", "e",
      "r", "s", "e", "c", "_", "e", "v", "a", "l", ":", "_", "a", "v", "e",
      "r", "a", "g", "e">>

None    == <<>>
Some(v) == <<v>>

\* the key of a task in "config_tasks": suite|name, where its key in
\* "results" is suite|name|fewshots
ConfigName(task_key) ==
    IF task_key = OwaspKey THEN OwaspName
    ELSE IF task_key = OwaspCtxKey THEN OwaspCtxName
    ELSE IF task_key = PlainKey THEN PlainName
    ELSE IF task_key = AverageKey THEN AverageName
    ELSE task_key

TaskOrder      == <<OwaspKey, OwaspCtxKey, PlainKey>>
TaskKeys       == Range(TaskOrder)
AggregateKeys  == <<AllKey, AverageKey>>
DocCounts      == {0, 1, MaxDocs}

\* the substring test `sub in str`
Contains(str, sub) ==
    \E i \in 1 .. Len(str) - Len(sub) + 1 : SubSeq(str, i, i + Len(sub) - 1) = sub

\* str.rsplit(sep, 1)[0]: the text before the last sep, the whole text when
\* it has no sep
RSplitOnce(str, sep) ==
    IF \E i \in DOMAIN str : str[i] = sep
    THEN LET last == CHOOSE i \in DOMAIN str :
                        /\ str[i] = sep
                        /\ \A j \in DOMAIN str : str[j] = sep => j <= i
         IN SubSeq(str, 1, last - 1)
    ELSE str

\* a variant that looks the task up under its full key
ConfigKeyOfWhole(task_key) == task_key

\* line 44
ConfigKeyOf(task_key) == RSplitOnce(task_key, "|")

\* line 30
IsAggregate(task_key) == Contains(task_key, UnderscoreAverage) \/ task_key = AllKey

\* lines 34-37: the index [1] raises IndexError when the key has no ":"
CleanTaskName(task_key) ==
    LET parts == Split(task_key, ":") IN
    IF Len(parts) >= 2 THEN Split(parts[2], "|")[1] ELSE task_key

\* lines 45-46: the two .get calls
NumDocsOf(config_tasks, task_config_key) ==
    IF task_config_key \in DOMAIN config_tasks
    THEN config_tasks[task_config_key]
    ELSE None

\* lines 29-50: the loop over the items of results, from the i-th on;
\* acc = [results, total_weighted_acc, total_docs]
RECURSIVE ResultsLoop(_, _, _)
ResultsLoop(d, i, acc) ==
    IF i > Len(d.results) THEN acc
    ELSE LET task_key == d.results[i].task_key
             acc_norm == d.results[i].acc_norm
             num_docs == NumDocsOf(d.config_tasks, ConfigKeyOf(task_key))
         IN
         IF IsAggregate(task_key) \/ acc_norm = None
         THEN ResultsLoop(d, i + 1, acc)
         ELSE ResultsLoop(d, i + 1,
                [results |->
                    [c \in DOMAIN acc.results \cup {CleanTaskName(task_key)} |->
                        IF c = CleanTaskName(task_key) THEN acc_norm[1]
                        ELSE acc.results[c]],
                 total_weighted_acc |->
                    IF num_docs = None THEN acc.total_weighted_acc
                    ELSE RAdd(acc.total_weighted_acc, RMulInt(acc_norm[1], num_docs[1])),
                 total_docs |->
                    IF num_docs = None THEN acc.total_docs
                    ELSE acc.total_docs + num_docs[1]])

\* lines 7-58
ExtractResults(d) ==
    IF ~d.exists THEN [error |-> "File not found"]
    ELSE LET r == ResultsLoop(d, 1, [results |-> <<>>, total_weighted_acc |-> RZero,
                                     total_docs |-> 0])
         IN [model_name         |-> IF d.model_name = None THEN "N/A" ELSE d.model_name[1],
             evaluation_results |-> r.results,
             macro_accuracy     |-> IF r.total_docs > 0
                                    THEN RDivInt(r.total_weighted_acc, r.total_docs)
                                    ELSE RZero]

\* two orders in which the items of "results" can be listed, one the
\* reverse of the other
Reverse(seq) == [i \in 1 .. Len(seq) |-> seq[Len(seq) + 1 - i]]
Orders(present) ==
    LET listed == SelectSeq(TaskOrder, LAMBDA k : k \in present)
    IN {listed, Reverse(listed)}

\* the items of "results": the present tasks in the order o, each with or
\* without acc_norm
ResultItems(o, a) == [i \in 1 .. Len(o) |-> [task_key |-> o[i], acc_norm |-> a[o[i]]]]

\* the aggregate entries lighteval adds to "results"
AggregateItems ==
    [i \in 1 .. Len(AggregateKeys) |-> [task_key |-> AggregateKeys[i], acc_norm |-> Some(ROne)]]

AggregateConfigs ==
    [k \in {ConfigName(AggregateKeys[i]) : i \in DOMAIN AggregateKeys} |-> Some(MaxDocs)]

\* the union of two dicts with disjoint keys
Merge(f, g) == [k \in DOMAIN f \cup DOMAIN g |-> IF k \in DOMAIN f THEN f[k] ELSE g[k]]

\* a results file: some of the tasks, each with or without acc_norm and with
\* or without a config_tasks entry, which has effective_num_docs or not; with
\* or without the aggregate entries
IsDocument(d) ==
    \E present \in SUBSET TaskKeys :
      \E configured \in SUBSET present, o \in Orders(present) :
        \E a \in [present -> {None} \cup {Some(v) : v \in AccValues}] :
          \E n \in [configured -> {None} \cup {Some(c) : c \in DocCounts}] :
            \E cfg \in {[k \in {ConfigName(t) : t \in configured} |->
                            n[CHOOSE t \in configured : ConfigName(t) = k]]} :
               \/ d = [exists |-> TRUE, model_name |-> None,
                       results |-> ResultItems(o, a), config_tasks |-> cfg]
               \/ d = [exists |-> TRUE, model_name |-> Some("m"),
                       results |-> AggregateItems \o ResultItems(o, a),
                       config_tasks |-> Merge(AggregateConfigs, cfg)]

InitExtract ==
    /\ pc = "extract"
    /\ error = "none"
    /\ IsDocument(data) \/ data = [exists |-> FALSE]
    /\ extracted = <<>>
    /\ evaluation_results = Idle /\ dataset_totals = Idle /\ kind = "dict"
    /\ er_in = Idle /\ macro_averages = Idle /\ micro_averages = Idle
    /\ dataset = Idle /\ correct_answer_ratio = Idle /\ all_correct_ids = Idle
    /\ filtered_ids = Idle /\ scores = Idle /\ kept_len = 0
    /\ top_entries = Idle /\ files_by_eval = Idle /\ artifacts = Idle /\ skipped = {}
    /\ IdleMain /\ IdlePrompt

CallExtractResults ==
    /\ pc = "extract"
    /\ extracted' = ExtractResults(data)
    /\ pc' = "extracted"
    /\ UNCHANGED <<error, data, avgVars, aggVars, scanVars, mainVars, promptVars>>

NextExtract == CallExtractResults

SpecExtract == InitExtract /\ [][NextExtract]_vars

(***************************************************************************)
(* community_tasks: the prompt functions                                   *)
(* A record is [task, gold, answers, content]: the task whose dataset it   *)
(* belongs to, the text of its gold-answer field (solution, GT or answer), *)
(* the letters its answers dict has a text for, whether its content field  *)
(* is a non-empty text.  What a function returns is a Doc or None.         *)
(***************************************************************************)
PromptFunctions ==
    {"cybersec_prompt_fn", "ctimcq_prompt_fn", "cybermetrics_mcq_prompt_fn",
     "seceval_prompt_fn"}

\* ENGLISH_LETTER_INDICES of cybersec_eval.py, ctibench_eval.py and
\* cybermetrics_eval.py
FourLetters == << <<"A">>, <<"B">>, <<"C">>, <<"D">> >>

\* ENGLISH_LETTER_INDICES of sec2evalmcqa.py; the last entry is ''
SecevalLetters ==
    << <<"A">>, <<"B">>, <<"C">>, <<"D">>,
       <<"A", "B">>, <<"A", "C">>, <<"A", "D">>, <<"B", "C">>, <<"B", "D">>, <<"C", "D">>,
       <<"A", "B", "C">>, <<"A", "B", "D">>, <<"A", "C", "D">>, <<"B", "C", "D">>,
       <<"A", "B", "C", "D">>, <<>> >>

\* the gold-answer texts of the records: "A", "D", "d", " B ", "E", "AB",
\* "acd", "BA" and ""
GoldAnswers ==
    { <<"A">>, <<"D">>, <<"d">>, <<" ", "B", " ">>, <<"E">>, <<"A", "B">>,
      <<"a", "c", "d">>, <<"B", "A">>, <<>> }

\* str.strip(), on texts whose only white space is " "
RECURSIVE StripLeft(_)
StripLeft(str) ==
    IF str # <<>> /\ Head(str) = " " THEN StripLeft(Tail(str)) ELSE str

RECURSIVE StripRight(_)
StripRight(str) ==
    IF str # <<>> /\ str[Len(str)] = " "
    THEN StripRight(SubSeq(str, 1, Len(str) - 1))
    ELSE str

Strip(str) == StripRight(StripLeft(str))

\* str.upper(), on the letters the records use
LowerCase == <<"a", "b", "c", "d", "e">>
UpperCase == <<"A", "B", "C", "D", "E">>
UpperChar(c) ==
    IF \E k \in DOMAIN LowerCase : LowerCase[k] = c
    THEN UpperCase[CHOOSE k \in DOMAIN LowerCase : LowerCase[k] = c]
    ELSE c
Upper(str) == [i \in DOMAIN str |-> UpperChar(str[i])]

\* x in list
InList(list, x) == \E k \in DOMAIN list : list[k] = x

\* list.index(x), counted from 0, for an x of the list
IndexIn(list, x) ==
    (CHOOSE k \in DOMAIN list : list[k] = x /\ \A j \in DOMAIN list : list[j] = x => k <= j) - 1

\* [f" {letter}" for letter in ENGLISH_LETTER_INDICES]
DocChoices(letters) == [k \in DOMAIN letters |-> <<" ">> \o letters[k]]

Doc(letters, gold_index, with_context) ==
    [kind |-> "Doc", choices |-> DocChoices(letters), gold_index |-> gold_index,
     context |-> with_context]
RaisedValueError == [kind |-> "ValueError"]
ReturnedNone     == [kind |-> "None"]

\* cybersec_eval.py, lines 51-117
CybersecPromptFn(ln, include_context) ==
    IF \E k \in DOMAIN FourLetters : FourLetters[k] \notin ln.answers   \* lines 75-79
    THEN RaisedValueError
    ELSE IF ~InList(FourLetters, ln.gold)                               \* lines 102-108
    THEN RaisedValueError
    ELSE Doc(FourLetters, IndexIn(FourLetters, ln.gold), include_context /\ ln.content)

\* ctibench_eval.py, lines 15-37
CtimcqPromptFn(ln) ==
    IF ~InList(FourLetters, Upper(Strip(ln.gold)))                      \* lines 22-28
    THEN RaisedValueError
    ELSE Doc(FourLetters, IndexIn(FourLetters, Upper(Strip(ln.gold))), FALSE)

\* cybermetrics_eval.py, lines 9-35
CybermetricsMcqPromptFn(ln) ==
    IF ~InList(FourLetters, Upper(Strip(ln.gold)))                      \* lines 21-27
    THEN RaisedValueError
    ELSE Doc(FourLetters, IndexIn(FourLetters, Upper(Strip(ln.gold))), FALSE)

\* sec2evalmcqa.py, lines 10-36
SecevalPromptFn(ln) ==
    LET gold_letter == Upper(Strip(ln.gold)) IN                         \* line 13
    IF ~InList(SecevalLetters, gold_letter)                             \* lines 24-26
    THEN ReturnedNone
    ELSE Doc(SecevalLetters, IndexIn(SecevalLetters, gold_letter), FALSE)

InitPrompt ==
    /\ pc = "line"
    /\ error = "none"
    /\ line \in [task : PromptFunctions, gold : GoldAnswers,
                 answers : SUBSET Range(FourLetters), content : BOOLEAN]
    /\ doc = <<>>
    /\ evaluation_results = Idle /\ dataset_totals = Idle /\ kind = "dict"
    /\ er_in = Idle /\ macro_averages = Idle /\ micro_averages = Idle
    /\ dataset = Idle /\ correct_answer_ratio = Idle /\ all_correct_ids = Idle
    /\ filtered_ids = Idle /\ scores = Idle /\ kept_len = 0
    /\ top_entries = Idle /\ files_by_eval = Idle /\ artifacts = Idle /\ skipped = {}
    /\ IdleMain /\ IdleExtract

\* the call ends: with the exception, or with the Doc or the None returned
Returns(out) ==
    /\ IF out.kind = "ValueError"
       THEN pc' = "raised" /\ error' = "ValueError" /\ UNCHANGED doc
       ELSE pc' = "returned" /\ doc' = out /\ UNCHANGED error
    /\ UNCHANGED <<line, avgVars, aggVars, scanVars, mainVars, extractVars>>

CallCybersecPromptFn ==
    /\ pc = "line" /\ line.task = "cybersec_prompt_fn"
    /\ \E include_context \in BOOLEAN : Returns(CybersecPromptFn(line, include_context))

CallCtimcqPromptFn ==
    /\ pc = "line" /\ line.task = "ctimcq_prompt_fn"
    /\ Returns(CtimcqPromptFn(line))

CallCybermetricsMcqPromptFn ==
    /\ pc = "line" /\ line.task = "cybermetrics_mcq_prompt_fn"
    /\ Returns(CybermetricsMcqPromptFn(line))

CallSecevalPromptFn ==
    /\ pc = "line" /\ line.task = "seceval_prompt_fn"
    /\ Returns(SecevalPromptFn(line))

NextPrompt ==
    \/ CallCybersecPromptFn
    \/ CallCtimcqPromptFn
    \/ CallCybermetricsMcqPromptFn
    \/ CallSecevalPromptFn

SpecPrompt == InitPrompt /\ [][NextPrompt]_vars

(***************************************************************************)
(* Reference sums, over sets.                                              *)
(***************************************************************************)
RECURSIVE SumR(_, _)
SumR(S, f) ==
    IF S = {} THEN RZero
    ELSE LET s == CHOOSE s \in S : TRUE IN RAdd(f[s], SumR(S \ {s}, f))

RECURSIVE SumN(_, _)
SumN(S, f) ==
    IF S = {} THEN 0
    ELSE LET s == CHOOSE s \in S : TRUE IN f[s] + SumN(S \ {s}, f)

AvgDone    == pc \in {"returned", "raised"}
Subsets    == 1 .. Len(er_in)
SubsetsOf(m) == {i \in Subsets : m \in DOMAIN er_in[i]}
\* m has a score in one subset and none in another
PartlyCovered(m) == SubsetsOf(m) # {} /\ SubsetsOf(m) # Subsets
\* the weights of the subsets in which m has a score sum to 0
ZeroWeight(m) == SubsetsOf(m) # {} /\ SumN(SubsetsOf(m), dataset_totals) = 0

\* C1 (as claimed): a model with a score in one subset and none in another
\* is a key of neither average, and the call does not raise.
C1_MissingModelExcluded ==
    AvgDone =>
        \A m \in Models :
            PartlyCovered(m) =>
                /\ error = "none"
                /\ m \notin DOMAIN macro_averages
                /\ m \notin DOMAIN micro_averages

\* C2: for every reported model, the macro average is the weighted sum of
\* its scores over the subsets in which it has a score, divided by the sum of
\* those subsets' weights.
C2_MacroIsWeightedMean ==
    pc = "returned" =>
        \A m \in DOMAIN macro_averages :
            LET S   == SubsetsOf(m)
                num == SumR(S, [i \in S |-> RMulInt(er_in[i][m], dataset_totals[i])])
                den == SumN(S, dataset_totals)
            IN /\ den > 0
               /\ macro_averages[m][2] > 0
               /\ REq(macro_averages[m], <<num[1], num[2] * den>>)

C2_Witness ==
    /\ pc = "returned"
    /\ \E m \in DOMAIN macro_averages : \E i, j \in SubsetsOf(m) :
          /\ dataset_totals[i] > 0 /\ dataset_totals[j] > dataset_totals[i]
          /\ er_in[i][m] # er_in[j][m]
          /\ ~REq(macro_averages[m], micro_averages[m])

\* C3: for every reported model, the micro average is the unweighted mean of
\* its scores over all subsets of the input (a score a defaultdict lacks reads
\* as 0.0); with positive weights the reported models, their micro averages
\* and whether the call raises are determined by the scores alone, so they are
\* the same under every other choice of positive weights.
PositiveWeights == \A i \in Subsets : dataset_totals[i] > 0

C3_MicroIsUnweightedMean ==
    (AvgDone /\ Len(er_in) > 0 /\ PositiveWeights) =>
        /\ pc = "returned" =>
              /\ DOMAIN micro_averages = FirstKeys(er_in)
              /\ \A m \in DOMAIN micro_averages :
                    LET sum == SumR(Subsets, [i \in Subsets |-> Lookup(er_in[i], m)])
                    IN REq(micro_averages[m], <<sum[1], sum[2] * Len(er_in)>>)
        /\ pc = "raised" <=>
              (kind = "dict" /\ \E m \in FirstKeys(er_in) : PartlyCovered(m))

C3_Witness ==
    /\ pc = "returned" /\ PositiveWeights
    /\ \E m \in DOMAIN micro_averages : \E i, j \in SubsetsOf(m) :
          /\ dataset_totals[i] # dataset_totals[j]
          /\ er_in[i][m] # er_in[j][m]
          /\ ~REq(macro_averages[m], micro_averages[m])

Analyzed     == pc \in {"analyzed", "scored"}
IdxOfId(q)   == {i \in DOMAIN dataset : dataset[i].id = q}
AccOf        == [i \in DOMAIN dataset |-> dataset[i].acc_norm]
GroupSum(q)  == SumR(IdxOfId(q), AccOf)
InUnitRange(q) == \A i \in IdxOfId(q) : RLe(dataset[i].acc_norm, ROne)

\* C5 (as claimed): every ratio lies in [0, 1] and is 1 exactly for the ids of
\* the universally-correct list.
C5_RatioInUnitInterval ==
    Analyzed =>
        \A q \in DOMAIN correct_answer_ratio :
            /\ RLe(RZero, correct_answer_ratio[q])
            /\ RLe(correct_answer_ratio[q], ROne)
            /\ REq(correct_answer_ratio[q], ROne) <=> q \in Range(all_correct_ids)

\* C5 (amended): every ratio is >= 0 and is >= 1 exactly for the ids of the
\* universally-correct list; for a group whose acc_norm values all lie in
\* [0, 1] the ratio lies in [0, 1] and is 1 exactly for the ids of the list.
C5_RatioBounds ==
    Analyzed =>
        /\ DOMAIN correct_answer_ratio = {dataset[i].id : i \in DOMAIN dataset}
        /\ \A q \in DOMAIN correct_answer_ratio :
              /\ correct_answer_ratio[q][2] > 0
              /\ RLe(RZero, correct_answer_ratio[q])
              /\ RLe(ROne, correct_answer_ratio[q]) <=> q \in Range(all_correct_ids)
              /\ InUnitRange(q) =>
                    /\ RLe(correct_answer_ratio[q], ROne)
                    /\ REq(correct_answer_ratio[q], ROne) <=> q \in Range(all_correct_ids)

C5_Witness ==
    /\ pc = "analyzed"
    /\ \E q, p \in DOMAIN correct_answer_ratio :
          /\ InUnitRange(q) /\ REq(correct_answer_ratio[q], ROne)
          /\ Cardinality(IdxOfId(q)) > 1
          /\ InUnitRange(p) /\ ~REq(correct_answer_ratio[p], ROne)
          /\ q \in Range(all_correct_ids) /\ p \notin Range(all_correct_ids)

\* C6: the keys of the returned mapping are exactly the models with a
\* retained row, each with the mean of acc_norm over its retained rows; a
\* model without a retained row is absent.
Retained      == {i \in DOMAIN dataset :
                     ~(filtered_ids.given /\ dataset[i].id \in Range(filtered_ids.ids))}
RetainedOf(m) == {i \in Retained : dataset[i].model_name = m}

C6_AccuracyOverRetained ==
    pc = "scored" =>
        /\ DOMAIN scores = {dataset[i].model_name : i \in Retained}
        /\ \A m \in DOMAIN scores :
              LET sum == SumR(RetainedOf(m), AccOf)
              IN /\ scores[m][2] > 0
                 /\ REq(scores[m], <<sum[1], sum[2] * Cardinality(RetainedOf(m))>>)

C6_Witness ==
    /\ pc = "scored" /\ filtered_ids.given
    /\ \E m \in Models :
          /\ RetainedOf(m) = {}
          /\ \E i \in DOMAIN dataset : dataset[i].model_name = m
          /\ m \notin DOMAIN scores
    /\ \E m \in DOMAIN scores : \E i, j \in RetainedOf(m) :
          dataset[i].acc_norm # dataset[j].acc_norm

\* C7: with the universally-correct ids excluded, the number of retained rows
\* is at most the number of rows, and equal exactly when no question of the
\* subset is universally correct.
FilteredAsMain == pc = "scored" /\ filtered_ids.given /\ filtered_ids.ids = all_correct_ids
NoneUniversallyCorrect ==
    \A q \in {dataset[i].id : i \in DOMAIN dataset} :
        ~RLe(RInt(Cardinality(IdxOfId(q))), GroupSum(q))

C7_FilteringLaw ==
    FilteredAsMain =>
        /\ kept_len <= Len(dataset)
        /\ kept_len = Len(dataset) <=> NoneUniversallyCorrect

C7_Witness ==
    /\ FilteredAsMain
    /\ 0 < kept_len /\ kept_len < Len(dataset)

(***************************************************************************)
(* Claims about the first pass of combine_results_memory_efficient         *)
(***************************************************************************)
\* every file info recorded so far
Infos == UNION {{[eval_name |-> k, info |-> files_by_eval[k][i]] :
                    i \in DOMAIN files_by_eval[k]} : k \in DOMAIN files_by_eval}
Last(seq) == seq[Len(seq)]

TaskASub == <<"t", "a", "s", "k", "_", "a", ":", "s", "u", "b">>   \* "task_a:sub"
TaskB    == <<"t", "a", "s", "k", "_", "b">>                       \* "task_b"

\* C8 (as claimed): the file named details_community|task_a:sub|0_... is
\* recorded under the evaluation name "task_a:sub", the file named
\* task_b_2025-... under "task_b".
C8_EvalNameResolution ==
    \A r \in Infos :
        /\ Last(r.info.path) = DetailsTaskA => r.eval_name = TaskASub
        /\ Last(r.info.path) = PlainTaskB => r.eval_name = TaskB

\* the result files of the tree at the two layouts, each with its path, its
\* timestamp folder and its owning model name
IsResult(n) == ~IsDir(n) /\ EndsWith(n.name, DotParquet)
FlatFiles(e) ==
    UNION {{[path |-> <<e.name, e.kids[t].name, e.kids[t].kids[f].name>>,
             model_name |-> e.name,
             evaluation_time |-> e.kids[t].name] :
               f \in {k \in DOMAIN e.kids[t].kids : IsResult(e.kids[t].kids[k])}} :
           t \in {k \in DOMAIN e.kids : IsDir(e.kids[k])}}
OrgFiles(e) ==
    UNION {{[path |-> <<e.name>> \o x.path,
             model_name |-> e.name \o <<"_">> \o x.model_name,
             evaluation_time |-> x.evaluation_time] : x \in FlatFiles(e.kids[m])} :
           m \in {k \in DOMAIN e.kids : IsDir(e.kids[k])}}
LayoutFiles(e) == IF IsDir(e) THEN FlatFiles(e) \cup OrgFiles(e) ELSE {}

\* every directory of the entry can be listed
RECURSIVE Readable(_)
Readable(n) == n.readable /\ \A k \in DOMAIN n.kids : Readable(n.kids[k])

\* the entry holds result files at one layout only
OneLayout(e) == FlatFiles(e) = {} \/ OrgFiles(e) = {}

\* C9 (as claimed): when the scan ends, every result file at one of the two
\* layouts is recorded with its path, its owning model name and its timestamp
\* folder, whatever else the tree holds and in whatever order it is listed.
C9_EveryResultFileRecorded ==
    pc = "scanned" =>
        \A i \in DOMAIN top_entries :
            (Readable(top_entries[i]) /\ OneLayout(top_entries[i])) =>
                \A x \in LayoutFiles(top_entries[i]) : \E r \in Infos : r.info = x

\* what a scan of the entry alone records
AloneInfos(e) ==
    LET r == ScanTop(e, Idle) IN
    UNION {{r.fbe[k][i] : i \in DOMAIN r.fbe[k]} : k \in DOMAIN r.fbe}

\* C10 (as claimed): the scan never aborts; an entry that cannot be listed is
\* skipped, and what the other first-level entries hold is still recorded.
C10_ScanNeverAborts ==
    /\ pc # "raised"
    /\ pc = "scanned" =>
          \A i \in DOMAIN top_entries :
              Readable(top_entries[i]) =>
                  \A x \in AloneInfos(top_entries[i]) : \E r \in Infos : r.info = x

(***************************************************************************)
(* C11. When writing one of the reports handed to save_results fails, the  *)
(* failure is reported and every other report of the mapping is still      *)
(* written.                                                                *)
(***************************************************************************)
SaveFailed == pc = "raised" /\ error = "OSError"

C11_OtherReportsStillWritten ==
    SaveFailed => Range(written) = Range(ReportNames) \ {failed}

(***************************************************************************)
(* C12. After the loop iteration of a subset, dataset_total holds the      *)
(* number of distinct question ids of the subset and dataset_total_filtered*)
(* the number of its hard questions: the distinct ids that are not         *)
(* universally correct.                                                    *)
(***************************************************************************)
IdsOf(ds) == {ds[i].id : i \in DOMAIN ds}

\* every answer to the question is correct
AnsweredByAll(ds, q) == \A i \in DOMAIN ds : ds[i].id = q => REq(ds[i].acc_norm, ROne)

HardIds(ds) == {q \in IdsOf(ds) : ~AnsweredByAll(ds, q)}

C12_TotalsCountDistinctAndHard ==
    aggregated # <<>> =>
        /\ dataset_total[Len(aggregated)] = Cardinality(IdsOf(dataset))
        /\ dataset_total_filtered[Len(aggregated)] = Cardinality(HardIds(dataset))

(***************************************************************************)
(* C13. A run of main on a repository without subsets ends normally and    *)
(* writes no report.                                                       *)
(***************************************************************************)
C13_NoSubsetsEndsNormally ==
    subsets = <<>> => (error = "none" /\ written = <<>>)

(***************************************************************************)
(* C18. In main the averages are computed only after the loop iteration of *)
(* every subset has completed, no report is written before both calls of   *)
(* compute_macro_micro_averages have returned, and each subset is          *)
(* aggregated exactly once, in the order of subsets.                       *)
(***************************************************************************)
C18_AveragesAfterEverySubset ==
    /\ Len(aggregated) <= Len(subsets)
    /\ aggregated = SubSeq(subsets, 1, Len(aggregated))
    /\ Len(all_evaluation_results) = Len(aggregated)
    /\ pc # "loop" => aggregated = subsets
    /\ avg_calls > 0 => aggregated = subsets
    /\ written # <<>> => (avg_calls = 2 /\ aggregated = subsets)

C18_Witness ==
    /\ pc = "done"
    /\ Len(subsets) = 2
    /\ written = ReportNames

(***************************************************************************)
(* C14. On the records (q1,x,1), (q1,y,1), (q2,x,1), (q2,y,0) the ratio of *)
(* q1 is 1 and that of q2 is 0.5, q1 is the only universally-correct id,   *)
(* the accuracies are x = 1, y = 0.5 without a filter and x = 1, y = 0     *)
(* with q1 filtered out.                                                   *)
(***************************************************************************)
Half == <<1, 2>>

IsMapping(f, keys) == DOMAIN f = keys

C14_TwoByTwoValues ==
    (dataset = TwoByTwoRecords /\ pc \in {"analyzed", "scored"}) =>
        /\ IsMapping(correct_answer_ratio, {1, 2})
        /\ REq(correct_answer_ratio[1], ROne)
        /\ REq(correct_answer_ratio[2], Half)
        /\ all_correct_ids = <<1>>
        /\ (pc = "scored" /\ ~filtered_ids.given) =>
              /\ IsMapping(scores, {"x", "y"})
              /\ REq(scores["x"], ROne)
              /\ REq(scores["y"], Half)
        /\ (pc = "scored" /\ filtered_ids.given /\ filtered_ids.ids = all_correct_ids) =>
              /\ IsMapping(scores, {"x", "y"})
              /\ REq(scores["x"], ROne)
              /\ REq(scores["y"], RZero)

C14_Witness ==
    /\ dataset = TwoByTwoRecords
    /\ pc = "scored"
    /\ filtered_ids.given
    /\ filtered_ids.ids = all_correct_ids

(***************************************************************************)
(* C15. With a subset of weight 10 on which the model scores 1 and a       *)
(* subset of weight 1000 on which it scores 0, the micro average is 0.5    *)
(* and the macro average is 10/1010, strictly below it, whichever subset   *)
(* is enumerated first.                                                    *)
(***************************************************************************)
RLt(a, b) == RLe(a, b) /\ ~REq(a, b)

OnUnequalSubsets == [er |-> er_in, totals |-> dataset_totals] \in UnequalSubsets

C15_MacroBelowMicro ==
    (OnUnequalSubsets /\ pc # "call") =>
        /\ pc = "returned"
        /\ IsMapping(micro_averages, {"x"}) /\ IsMapping(macro_averages, {"x"})
        /\ REq(micro_averages["x"], Half)
        /\ REq(macro_averages["x"], <<10, 1010>>)
        /\ RLt(macro_averages["x"], micro_averages["x"])

\* the large subset is enumerated first
C15_Witness ==
    /\ OnUnequalSubsets
    /\ dataset_totals[1] > dataset_totals[2]
    /\ pc = "returned"

(***************************************************************************)
(* C16. extract_results returns as macro_accuracy the mean of acc_norm     *)
(* weighted by effective_num_docs over exactly the tasks of "results" that *)
(* have acc_norm and whose config_tasks entry has effective_num_docs, the  *)
(* aggregate keys left out; it returns 0, and raises nothing, when no task *)
(* has a document count or the counts sum to 0.                            *)
(***************************************************************************)
Extracted == pc = "extracted" /\ data.exists

DocsOfItem(i) ==
    LET name == ConfigName(data.results[i].task_key) IN
    IF name \in DOMAIN data.config_tasks THEN data.config_tasks[name] ELSE None

\* the items that count: a task, with acc_norm, with a document count
Counted ==
    {i \in DOMAIN data.results :
        /\ data.results[i].task_key \in TaskKeys
        /\ data.results[i].acc_norm # None
        /\ DocsOfItem(i) # None}

C16_MacroAccuracyIsDocWeightedMean ==
    Extracted =>
        LET docs     == [i \in Counted |-> DocsOfItem(i)[1]]
            weighted == [i \in Counted |-> RMulInt(data.results[i].acc_norm[1], docs[i])]
        IN /\ error = "none"
           /\ IF SumN(Counted, docs) > 0
              THEN REq(extracted.macro_accuracy,
                       RDivInt(SumR(Counted, weighted), SumN(Counted, docs)))
              ELSE extracted.macro_accuracy = RZero

\* two counted tasks of different weight and accuracy, next to the aggregate
\* entries and to a task with acc_norm but without a document count
C16_Witness ==
    /\ Extracted
    /\ \E i, j \in Counted :
          /\ DocsOfItem(i)[1] > DocsOfItem(j)[1] /\ DocsOfItem(j)[1] > 0
          /\ ~REq(data.results[i].acc_norm[1], data.results[j].acc_norm[1])
    /\ \E i \in DOMAIN data.results : data.results[i].task_key = AllKey
    /\ \E i \in DOMAIN data.results \ Counted :
          data.results[i].task_key \in TaskKeys /\ data.results[i].acc_norm # None

(***************************************************************************)
(* C17. The outcome of the aggregation depends only on the set of inputs,  *)
(* not on the order in which they are enumerated: the averages of any      *)
(* re-enumeration of the same subsets are the averages of this one.        *)
(***************************************************************************)
Enumerations(n) == {p \in [1 .. n -> 1 .. n] : \A i, j \in 1 .. n : p[i] = p[j] => i = j}

InOrder(seq, p) == [i \in DOMAIN seq |-> seq[p[i]]]

C17_AveragesIndependentOfOrder ==
    AvgDone =>
        \A p \in Enumerations(Len(er_in)) :
            \E r \in {ComputeMacroMicroAverages(InOrder(er_in, p),
                                                InOrder(dataset_totals, p), kind)} :
                /\ r.error = error
                /\ r.macro = macro_averages
                /\ r.micro = micro_averages

(***************************************************************************)
(* C19. get_all_correct_ids returns one ratio per distinct question id,    *)
(* the sum of the scores of the id over the number of its records, and a   *)
(* list holding exactly the ids whose sum reaches that number, each once;  *)
(* a score above 1 raises nothing.                                         *)
(***************************************************************************)
GroupCount(q) == Cardinality(IdxOfId(q))

C19_RatioAndListPerId ==
    Analyzed =>
        /\ error = "none"
        /\ IsMapping(correct_answer_ratio, IdsOf(dataset))
        /\ \A q \in IdsOf(dataset) :
              /\ GroupCount(q) > 0
              /\ correct_answer_ratio[q] = RDivInt(GroupSum(q), GroupCount(q))
        /\ Range(all_correct_ids) =
              {q \in IdsOf(dataset) : RLe(RInt(GroupCount(q)), GroupSum(q))}
        /\ Len(all_correct_ids) = Cardinality(Range(all_correct_ids))

\* two ids with several records: one with a score above 1 that is listed,
\* one that is not listed
C19_Witness ==
    /\ pc = "analyzed"
    /\ \E q, p \in IdsOf(dataset) :
          /\ \E i \in IdxOfId(q) : ~RLe(dataset[i].acc_norm, ROne)
          /\ q \in Range(all_correct_ids)
          /\ ~RLe(correct_answer_ratio[q], ROne)
          /\ GroupCount(p) > 1
          /\ p \notin Range(all_correct_ids)

(***************************************************************************)
(* C20. A first-level directory is taken as an organization folder exactly *)
(* when its first listed sub-entry is a directory holding no entry whose   *)
(* name ends in .parquet; then its result files are those under            *)
(* org/model/timestamp, attributed to <org>_<model> and <timestamp>;       *)
(* otherwise they are those under model/timestamp, attributed to <model>   *)
(* and <timestamp>.                                                        *)
(***************************************************************************)
FirstIsBareDir(e) ==
    /\ e.kids # <<>>
    /\ IsDir(e.kids[1])
    /\ \A k \in DOMAIN e.kids[1].kids : ~EndsWith(e.kids[1].kids[k].name, DotParquet)

\* what the scan recorded below the first-level entry e
InfosBelow(e) == {r.info : r \in {x \in Infos : x.info.path[1] = e.name}}

C20_LayoutByFirstSubEntry ==
    \A i \in DOMAIN top_entries :
        LET e == top_entries[i] IN
        (IsDir(e) /\ Readable(e)) =>
            InfosBelow(e) = IF FirstIsBareDir(e) THEN OrgFiles(e) ELSE FlatFiles(e)

\* an organization folder and a model folder, both with result files
C20_Witness ==
    /\ pc = "scanned"
    /\ \E i, j \in DOMAIN top_entries :
          /\ IsDir(top_entries[i]) /\ Readable(top_entries[i])
          /\ FirstIsBareDir(top_entries[i]) /\ OrgFiles(top_entries[i]) # {}
          /\ IsDir(top_entries[j]) /\ Readable(top_entries[j])
          /\ ~FirstIsBareDir(top_entries[j]) /\ FlatFiles(top_entries[j]) # {}

(***************************************************************************)
(* C23. compute_macro_micro_averages leaves its inputs unchanged: after    *)
(* the call every subset's mapping has exactly the models and the values   *)
(* it had before, also when the mappings are defaultdicts.                 *)
(***************************************************************************)
C23_InputsUnchanged ==
    AvgDone => evaluation_results = er_in

(***************************************************************************)
(* C25. In extract_results every task of "results" that has acc_norm has   *)
(* its own entry of evaluation_results: there are as many entries as such  *)
(* tasks.                                                                  *)
(***************************************************************************)
\* the items of "results" that are tasks with acc_norm
Scored ==
    {i \in DOMAIN data.results :
        /\ data.results[i].task_key \in TaskKeys
        /\ data.results[i].acc_norm # None}

C25_OneEntryPerTask ==
    Extracted =>
        Cardinality(DOMAIN extracted.evaluation_results) = Cardinality(Scored)

(***************************************************************************)
(* C21. Every row the second pass writes carries the effective model name  *)
(* and the evaluation name the first pass recorded for its source file,    *)
(* and as timestamp the text after the last "_" of the name of the run     *)
(* folder, or that name when it has no "_".                                *)
(***************************************************************************)
AfterLastUnderscore(name) ==
    LET at == {i \in DOMAIN name : name[i] = "_"} IN
    IF at = {} THEN name
    ELSE SubSeq(name, (CHOOSE i \in at : \A j \in at : j <= i) + 1, Len(name))

\* the folder that holds the file
RunFolder(path) == path[Len(path) - 1]

C21_RowsCarryMetadata ==
    pc = "organized" =>
        LET recorded == Infos IN
        \A p \in DOMAIN artifacts :
            LET rows == artifacts[p] IN
            /\ rows.source \notin skipped
            /\ rows.timestamp = AfterLastUnderscore(RunFolder(rows.source))
            /\ [eval_name |-> rows.eval_name,
                info |-> [path |-> rows.source, model_name |-> rows.model_name,
                          evaluation_time |-> RunFolder(rows.source)]] \in recorded

\* a file of a run folder with "_" in its name and a file of one without,
\* one of them of a model below an organization folder
C21_Witness ==
    /\ pc = "organized"
    /\ \E p, q \in DOMAIN artifacts :
          /\ artifacts[p].timestamp # RunFolder(artifacts[p].source)
          /\ artifacts[q].timestamp = RunFolder(artifacts[q].source)
          /\ Len(artifacts[p].source) # Len(artifacts[q].source)

(***************************************************************************)
(* C24. After a second pass in which no file failed, the rows of every     *)
(* result file the first pass recorded are in the output.                  *)
(***************************************************************************)
C24_NoRowsLost ==
    (pc = "organized" /\ skipped = {}) =>
        \A r \in Infos : \E p \in DOMAIN artifacts : artifacts[p].source = r.info.path

(***************************************************************************)
(* C22. Every prompt function, given a record whose gold answer letter is  *)
(* not one of the function's choice letters, raises an error: it returns   *)
(* neither a document nor None.                                            *)
(***************************************************************************)
\* the letter the function looks up: cybersec_prompt_fn takes the field as
\* it is, the others strip it and put it in upper case
GoldLetter ==
    IF line.task = "cybersec_prompt_fn" THEN line.gold ELSE Upper(Strip(line.gold))

ChoiceLetters ==
    IF line.task = "seceval_prompt_fn" THEN SecevalLetters ELSE FourLetters

C22_BadGoldLetterRaises ==
    (pc # "line" /\ ~InList(ChoiceLetters, GoldLetter)) =>
        (pc = "raised" /\ error = "ValueError")

====
